---- MODULE Spec2Model ----
(***************************************************************************)
(* Model of the invoice-processing scripts of fabferri/ai-playground.      *)
(*                                                                         *)
(* Part 1: validate_manifest.py -- the manifest consistency validator.     *)
(* A run loads the manifest, walks the records once (required fields,      *)
(* duplicate IDs, arithmetic), checks the ID sequence, gathers the         *)
(* statistics and returns the report.                                      *)
(***************************************************************************)
EXTENDS Integers, Sequences, FiniteSets, TLC

(***************************************************************************)
(* Python float arithmetic.                                                *)
(*                                                                         *)
(* The amounts of a manifest are JSON numbers with two decimals; json.load *)
(* turns them into binary64 floats.  A non-negative binary64 value v with  *)
(* 2^-7 <= v < 2^20 (or v = 0) is a multiple of 2^-60, so it is written    *)
(* here exactly as the four base-2^20 limbs of v * 2^60, the integer part  *)
(* first:                                                                  *)
(*     v = n[1] + n[2]/2^20 + n[3]/2^40 + n[4]/2^60.                       *)
(* Every operation is computed exactly on the limbs and then rounded to    *)
(* the 53 significant bits of binary64, ties to even, as the hardware      *)
(* does.  An amount is given in whole cents c and denotes the literal      *)
(* c/100.                                                                  *)
(***************************************************************************)
LimbBase == 2^20

SigBits == 53

RECURSIVE BitLen(_)
BitLen(n) == IF n = 0 THEN 0 ELSE 1 + BitLen(n \div 2)

\* carry propagation, least significant limb n[4] first
Norm(n) ==
    LET c4 == n[4] \div LimbBase
        s3 == n[3] + c4
        c3 == s3 \div LimbBase
        s2 == n[2] + c3
        c2 == s2 \div LimbBase
    IN  <<n[1] + c2, s2 % LimbBase, s3 % LimbBase, n[4] % LimbBase>>

AddX(a, b) == Norm(<<a[1] + b[1], a[2] + b[2], a[3] + b[3], a[4] + b[4]>>)

Less(a, b) ==
    \/ a[1] < b[1]
    \/ a[1] = b[1] /\ a[2] < b[2]
    \/ a[1] = b[1] /\ a[2] = b[2] /\ a[3] < b[3]
    \/ a[1] = b[1] /\ a[2] = b[2] /\ a[3] = b[3] /\ a[4] < b[4]

\* a - b for a >= b, with borrows
SubX(a, b) ==
    LET d4 == a[4] - b[4]
        b4 == IF d4 < 0 THEN 1 ELSE 0
        d3 == a[3] - b[3] - b4
        b3 == IF d3 < 0 THEN 1 ELSE 0
        d2 == a[2] - b[2] - b3
        b2 == IF d2 < 0 THEN 1 ELSE 0
    IN  <<a[1] - b[1] - b2, d2 + b2 * LimbBase, d3 + b3 * LimbBase,
          d4 + b4 * LimbBase>>

\* position of the leading 1 bit of n, counted from the 2^-60 bit as 1
TopBit(n) ==
    IF n[1] > 0 THEN 60 + BitLen(n[1])
    ELSE IF n[2] > 0 THEN 40 + BitLen(n[2])
    ELSE IF n[3] > 0 THEN 20 + BitLen(n[3])
    ELSE BitLen(n[4])

\* round the exact value n (plus a non-zero tail below 2^-60 when sticky)
\* to 53 significant bits, ties to even; the bits dropped lie in n[4] alone
\* (drop <= 20) or in n[3] and n[4] (drop <= 40)
RoundSig(n, sticky) ==
    LET drop == TopBit(n) - SigBits
    IN  IF drop <= 0 THEN n
        ELSE IF drop <= 20
        THEN LET rem  == n[4] % (2^drop)
                 half == 2^(drop - 1)
                 odd  == IF drop = 20 THEN n[3] % 2 = 1
                         ELSE (n[4] \div (2^drop)) % 2 = 1
                 up   == \/ rem > half
                         \/ rem = half /\ (sticky \/ odd)
                 cut  == <<n[1], n[2], n[3], n[4] - rem>>
             IN  IF up THEN AddX(cut, <<0, 0, 0, 2^drop>>) ELSE cut
        ELSE LET d    == drop - 20
                 rem  == n[3] % (2^d)
                 half == 2^(d - 1)
                 odd  == IF d = 20 THEN n[2] % 2 = 1
                         ELSE (n[3] \div (2^d)) % 2 = 1
                 up   == \/ rem > half
                         \/ rem = half /\ n[4] > 0
                         \/ rem = half /\ n[4] = 0 /\ (sticky \/ odd)
                 cut  == <<n[1], n[2], n[3] - rem, 0>>
             IN  IF up THEN AddX(cut, <<0, 0, 2^d, 0>>) ELSE cut

\* float("c/100"): the binary64 nearest to the decimal literal
FromCents(c) ==
    LET r0 == c % 100
        f1 == (r0 * LimbBase) \div 100
        r1 == (r0 * LimbBase) % 100
        f2 == (r1 * LimbBase) \div 100
        r2 == (r1 * LimbBase) % 100
        f3 == (r2 * LimbBase) \div 100
        r3 == (r2 * LimbBase) % 100
    IN  RoundSig(<<c \div 100, f1, f2, f3>>, r3 # 0)

\* x + y on floats
FAdd(x, y) == RoundSig(AddX(x, y), FALSE)

\* abs(x - y) on floats
FAbsSub(x, y) ==
    IF Less(x, y) THEN RoundSig(SubX(y, x), FALSE)
    ELSE RoundSig(SubX(x, y), FALSE)

\* k * n, exact, for a whole number k <= 2^10
MulSmall(n, k) == Norm(<<k * n[1], k * n[2], k * n[3], k * n[4]>>)

\* w * n, exact, for a whole number w < 2^20, by its two base-2^10 digits
MulWord(n, w) ==
    AddX(MulSmall(MulSmall(n, w \div 1024), 1024), MulSmall(n, w % 1024))

\* x * y on floats, for x a multiple of 2^-20 (x[3] = x[4] = 0): the exact
\* product is x[1] * y + (x[2] * y) / 2^20, and the limb of x[2] * y that
\* falls below 2^-60 is the sticky tail
MulShort(x, y) ==
    LET whole == MulWord(y, x[1])
        part  == MulWord(y, x[2])
        moved == Norm(<<0, part[1], part[2], part[3]>>)
    IN  RoundSig(AddX(whole, moved), part[4] # 0)

\* x * y on floats, one of them a multiple of 2^-20
FMul(x, y) ==
    IF x[3] = 0 /\ x[4] = 0 THEN MulShort(x, y) ELSE MulShort(y, x)

\* float(i) for a whole number i
FromInt(k) == <<k, 0, 0, 0>>

\* the exact product 100 * x (used by round(x, 2), not a float operation)
MulHundred(x) == Norm(<<100 * x[1], 100 * x[2], 100 * x[3], 100 * x[4]>>)

\* the whole number of cents nearest to the exact value of x, ties to even
NearestCents(x) ==
    LET m    == MulHundred(x)
        h    == LimbBase \div 2
        tail == m[3] > 0 \/ m[4] > 0
        up   == \/ m[2] > h
                \/ m[2] = h /\ tail
                \/ m[2] = h /\ ~tail /\ m[1] % 2 = 1
    IN  IF up THEN m[1] + 1 ELSE m[1]

\* round(x, 2): correctly rounded to two decimals, then back to binary64
PyRound2(x) == FromCents(NearestCents(x))

(***************************************************************************)
(* validate_manifest.py                                                    *)
(*                                                                         *)
(* A record is a function from the names of the fields it has to their     *)
(* values; an amount is held as its whole number of cents and stands for   *)
(* the JSON literal with two decimals.                                     *)
(***************************************************************************)
\* variant: the last required field is left out of the list
required_fields_NoFilePath ==
    <<"invoice_id", "vendor", "currency", "invoice_date", "due_date",
      "terms", "subtotal", "tax", "shipping", "total">>

required_fields ==
    <<"invoice_id", "vendor", "currency", "invoice_date", "due_date",
      "terms", "subtotal", "tax", "shipping", "total", "file_path">>

\* record.get(field, default)
Get(record, field, default) ==
    IF field \in DOMAIN record THEN record[field] ELSE default

\* the inner loop over required_fields for the record at index i
MissingOf(i, record) ==
    LET miss == SelectSeq(required_fields, LAMBDA f : f \notin DOMAIN record)
    IN  [k \in 1..Len(miss) |-> [record |-> i, field |-> miss[k]]]

\* round(subtotal + tax + shipping, 2)
CalculatedTotal(record) ==
    PyRound2(FAdd(FAdd(FromCents(Get(record, "subtotal", 0)),
                       FromCents(Get(record, "tax", 0))),
                  FromCents(Get(record, "shipping", 0))))

\* round(total, 2)
RecordedTotal(record) == PyRound2(FromCents(Get(record, "total", 0)))

\* abs(calculated_total - recorded_total) > 0.01
MathError(record) ==
    Less(FromCents(1), FAbsSub(CalculatedTotal(record), RecordedTotal(record)))

\* variant: an ID seen more than once is listed once, not at every repeat
Duplicates_OncePerId(dup, inv_id, seen) ==
    IF inv_id \in seen /\ (\A k \in 1..Len(dup) : dup[k] # inv_id)
    THEN Append(dup, inv_id) ELSE dup

\* lines 64-67: the duplicate list after a record whose ID is inv_id
Duplicates(dup, inv_id, seen) ==
    IF inv_id \in seen THEN Append(dup, inv_id) ELSE dup

\* lines 64-67: the set of seen IDs after a record whose ID is inv_id
Seen(seen, inv_id) == IF inv_id \in seen THEN seen ELSE seen \cup {inv_id}

\* str(n) for n >= 0
Digit == <<"0", "1", "2", "3", "4", "5", "6", "7", "8", "9">>

RECURSIVE Str(_)
Str(n) == IF n < 10 THEN Digit[n + 1] ELSE Str(n \div 10) \o Digit[(n % 10) + 1]

\* s.zfill(width)
RECURSIVE ZFill(_, _)
ZFill(s, width) == IF Len(s) >= width THEN s ELSE ZFill("0" \o s, width)

FirstSeq == 1

LastSeq == 120

IdWidth == 4

\* variant: range(1, 120)
expected_ids_Short ==
    [k \in 1..(LastSeq - FirstSeq) |->
        "INV-2025-" \o ZFill(Str(FirstSeq + k - 1), IdWidth)]

\* [f'INV-2025-{str(i).zfill(4)}' for i in range(1, 121)]
expected_ids ==
    [k \in 1..(LastSeq - FirstSeq + 1) |->
        "INV-2025-" \o ZFill(Str(FirstSeq + k - 1), IdWidth)]

\* [record['invoice_id'] for record in data] raises KeyError
RaisesKeyError(d) == \E k \in 1..Len(d) : "invoice_id" \notin DOMAIN d[k]

\* variant: the loop stops at the first gap
SequenceGaps_FirstOnly(actual_ids) ==
    LET gaps == SelectSeq(expected_ids,
                    LAMBDA e : \A k \in 1..Len(actual_ids) : actual_ids[k] # e)
    IN  IF gaps = <<>> THEN gaps ELSE <<gaps[1]>>

\* the loop over expected_ids, given actual_ids
SequenceGaps(actual_ids) ==
    SelectSeq(expected_ids,
              LAMBDA e : \A k \in 1..Len(actual_ids) : actual_ids[k] # e)

\* counts[key] = counts.get(key, 0) + 1
Counted(counts, key) ==
    [v \in DOMAIN counts \cup {key} |->
        (IF v \in DOMAIN counts THEN counts[v] ELSE 0)
            + (IF v = key THEN 1 ELSE 0)]

\* variant: a record without the field is left out of the count
Tallied_SkipAbsent(counts, record, field) ==
    IF field \in DOMAIN record THEN Counted(counts, record[field]) ELSE counts

\* lines 130-135: one record counted under its 'currency' or 'vendor', under
\* 'Unknown' when the record lacks the field
Tallied(counts, record, field) ==
    Counted(counts, Get(record, field, "Unknown"))

\* variant: math_errors left out of the verdict
HasErrors_NoMath(mf, dup, me, sg) == mf # <<>> \/ dup # <<>> \/ sg # <<>>

\* (missing_fields or duplicate_ids or math_errors or sequence_gaps)
HasErrors(mf, dup, me, sg) ==
    mf # <<>> \/ dup # <<>> \/ me # <<>> \/ sg # <<>>

\* variant: the set of seen IDs is kept from the previous call
InitialIds_Kept(old) == old

\* line 43: invoice_ids = set(), a fresh set at every call
InitialIds(old) == {}

\* variant: the defaults are written back (setdefault instead of get)
ReadRecord_SetDefault(record) ==
    [f \in DOMAIN record \cup {"invoice_id", "subtotal", "tax", "shipping",
                               "total"} |->
        IF f \in DOMAIN record THEN record[f]
        ELSE IF f = "invoice_id" THEN "" ELSE 0]

\* lines 59-73: the record after the loop body has read it with 'in' and
\* .get(), which store nothing
ReadRecord(record) == record

DisplayLimit == 10

\* err in diagnostics[:10]
Shown(diagnostics) ==
    SubSeq(diagnostics, 1,
           IF Len(diagnostics) > DisplayLimit THEN DisplayLimit
           ELSE Len(diagnostics))

\* variant: the line gives the total, not the remaining count
Remaining_Total(diagnostics) ==
    IF Len(diagnostics) > DisplayLimit THEN Len(diagnostics) ELSE 0

\* the count of the line '... and N more' (0: the line is not printed)
Remaining(diagnostics) ==
    IF Len(diagnostics) > DisplayLimit
    THEN Len(diagnostics) - DisplayLimit ELSE 0

\* lines 96-101, 104-109, 112-117, 120-125: the output for one category
PrintedFor(diagnostics) ==
    [count |-> Len(diagnostics),
     shown |-> Shown(diagnostics),
     more  |-> Remaining(diagnostics)]

\* variant: the script always exits with status 0
ExitStatus_Zero(passed) == 0

\* line 175: exit(0 if results['passed'] else 1)
ExitStatus(passed) == IF passed THEN 0 ELSE 1

\* exit status of the interpreter after an uncaught exception
UncaughtStatus == 1

(***************************************************************************)
(* The manifests a run is started on.                                      *)
(***************************************************************************)
MaxRecords == 3

MaxCents == 5

Invoice(id, vendor, currency, subtotal, tax, shipping, total) ==
    [invoice_id   |-> id,
     vendor       |-> vendor,
     currency     |-> currency,
     invoice_date |-> "2025-01-15",
     due_date     |-> "2025-02-14",
     terms        |-> "Net 30",
     subtotal     |-> subtotal,
     tax          |-> tax,
     shipping     |-> shipping,
     total        |-> total,
     file_path    |-> "invoices/invoice_" \o id \o ".pdf"]

Without(record, fields) == [f \in DOMAIN record \ fields |-> record[f]]

Inv1 == Invoice("INV-2025-0001", "Contoso", "USD", 10000, 2000, 500, 12500)

Inv2 == Invoice("INV-2025-0002", "Fabrikam", "EUR", 25050, 5010, 0, 30060)

Inv3 == Invoice("INV-2025-0003", "Contoso", "GBP", 999, 200, 0, 1199)

\* records a manifest may hold: well-formed ones, one whose total is wrong,
\* one outside the expected sequence, and ones with fields left out
SampleRecords ==
    { Inv1, Inv2, Inv3,
      Invoice("INV-2025-0001", "Contoso", "USD", 10000, 2000, 500, 13000),
      Invoice("INV-2025-0121", "Fabrikam", "USD", 10000, 2000, 0, 12000),
      Without(Inv2, {"total"}),
      Without(Inv3, {"vendor"}),
      Without(Inv1, {"invoice_id"}),
      Without(Inv2, {"invoice_id", "currency", "file_path"}),
      <<>> }

\* every list of at most MaxRecords sample records
SampleManifests == UNION {[1..n -> SampleRecords] : n \in 0..MaxRecords}

\* one record with any subset of the required fields left out
FieldManifests == {<<Without(Inv1, S)>> : S \in SUBSET DOMAIN Inv1}

\* one complete record over a grid of amounts around the tolerance
AmountManifests ==
    { <<Invoice("INV-2025-0001", "Contoso", "USD", s, t, sh, sh + d)>> :
        <<s, t, sh, d>> \in
            (0..MaxCents) \X (0..1) \X {0, 12500} \X (0..(MaxCents + 2)) }

\* the complete sequence INV-2025-0001..INV-2025-0120 with consistent amounts
SeqId(k) ==
    "INV-2025-" \o (IF k < 10 THEN "000" ELSE IF k < 100 THEN "00" ELSE "0")
                \o ToString(k)

FullManifest ==
    [k \in 1..120 |->
        Invoice(SeqId(k),
                IF k % 2 = 0 THEN "Contoso" ELSE "Fabrikam",
                IF k % 5 = 0 THEN "EUR" ELSE "USD",
                1000000 + k * 12750, 200000 + k * 2550,
                IF k % 3 = 0 THEN 2500 ELSE 0,
                1200000 + k * 15300 + (IF k % 3 = 0 THEN 2500 ELSE 0))]

\* the complete manifest, and the complete manifest with a single anomaly
FullManifests ==
    { FullManifest,
      [FullManifest EXCEPT ![7] = Without(@, {"due_date"})],
      Append(FullManifest, FullManifest[7]),
      [FullManifest EXCEPT ![7] =
          Invoice("INV-2025-0007", "Contoso", "USD", 10000, 2000, 500, 13000)],
      [FullManifest EXCEPT ![7] = Inv1],
      [FullManifest EXCEPT ![7] = Without(@, {"invoice_id"})] }

\* manifests with more than ten diagnostics of one category
LongManifests ==
    { <<[invoice_id |-> "INV-2025-0001"], [invoice_id |-> "INV-2025-0002"]>>,
      [k \in 1..12 |-> Inv1],
      [k \in 1..120 |->
          IF k <= 12 THEN [FullManifest[k] EXCEPT !["total"] = @ + 500]
          ELSE FullManifest[k]] }

Manifests ==
    SampleManifests \cup FieldManifests \cup AmountManifests
        \cup FullManifests \cup LongManifests

VARIABLES
    file_state,      \* the manifest file: "ok", "absent" or "malformed"
    manifest,        \* the JSON array in the manifest file
    run,             \* 1 for the first run of the script, 2 for the second
    first,           \* what the first run produced, kept for comparison
    pc,              \* position of the run in the script
    data,            \* the loaded list of records
    i,               \* index (from 0) of the next record of the main loop
    invoice_ids,     \* set of IDs seen so far
    missing_fields,  \* diagnostics, in the order appended
    math_errors,
    duplicate_ids,
    sequence_gaps,
    printed,         \* what the results section wrote to standard output
    currencies,      \* statistics
    vendors,
    tallied,         \* records the statistics loop has counted
    report,          \* the returned dict, once returned
    exit_code        \* exit status of the script, once it has exited

vvars == <<file_state, manifest, run, first, pc, data, i, invoice_ids,
           missing_fields, math_errors, duplicate_ids, sequence_gaps,
           printed, currencies, vendors, tallied, report, exit_code>>

\* generate_manifest.py: the invoices folder and the manifest file in it
VARIABLES
    folder_exists,   \* whether the folder "invoices" exists
    folder_files,    \* names of the files in it, the manifest file aside
    manifest_file,   \* content of invoices/manifest_invoices.json
    generated,       \* main has run since the folder last changed
    gen_out          \* how the last run of main ended

gvars == <<folder_exists, folder_files, manifest_file, generated, gen_out>>

\* extract_and_index.py, reset_index.py and the search service they call
VARIABLES
    epc,                 \* where extract_and_index.py stands
    pdf_list,            \* pdf_files, the names taken from the manifest
    pos,                 \* number of names the loop has gone through
    extracted_invoices,  \* the records extracted so far
    in_flight,           \* positions whose analysis is requested, unanswered
    submissions,         \* positions submitted for analysis, in time order
    received,            \* positions whose result or error has come back
    errors,              \* positions for which "ERROR" was printed
    outcomes,            \* how each name gone through ended
    extraction_file,     \* content of extraction_invoices.jsonl
    steps,               \* the steps main has taken, in time order
    index,               \* the search index at the service
    uploads,             \* upload requests sent to the service
    rpc,                 \* where reset_index.py stands
    index_name_set,      \* SEARCH_INDEX_NAME is configured
    reset_requests,      \* requests reset_index.py sent to the service
    reset_out,           \* how reset_index.py ended
    response,            \* what the user typed at the confirmation prompt
    recreate,            \* what the user answered to "Recreate ...?"
    deleted,             \* how delete_index went
    created              \* how create_empty_index went

pvars == <<epc, pdf_list, pos, extracted_invoices, in_flight, submissions,
           received, errors, outcomes, extraction_file, steps, index, uploads,
           rpc, index_name_set, reset_requests, reset_out, response,
           recreate, deleted, created>>

\* chatbot.py: an interactive session
VARIABLES
    cpc,                   \* where interactive_chat stands
    conversation_history,  \* the session's list of messages, <<>> for None
    messages,              \* the list ask_chatbot works on
    shared,                \* messages is the very list conversation_history is
    asked,                 \* questions passed to ask_chatbot so far
    user_input,            \* the question being answered
    history_before,        \* conversation_history when the question was put
    calls,                 \* the search and completion calls, in time order
    said                   \* what the session printed last

cvars == <<cpc, conversation_history, messages, shared, asked, user_input,
           history_before, calls, said>>

\* generate_realistic_invoices.py: load_manifest and the start of main
VARIABLES
    lpc,            \* where load_manifest stands
    readme_exists,  \* whether readme.md exists
    manifest_data,  \* content of invoices/manifest_invoices.json
    made,           \* loop index i of the record made last
    invoice_list,   \* the list invoices load_manifest builds
    load_out        \* what main printed after load_manifest

lvars == <<lpc, readme_exists, manifest_data, made, invoice_list, load_out>>

ovars == <<gvars, pvars, cvars, lvars>>

\* the chatbot is not in use
ChatIdle ==
    /\ cpc = "prompt"
    /\ conversation_history = <<>>
    /\ messages = <<>>
    /\ shared = FALSE
    /\ asked = 0
    /\ user_input = ""
    /\ history_before = <<>>
    /\ calls = <<>>
    /\ said = "banner"

\* the PDF generator is not in use
LoadIdle ==
    /\ lpc = "start"
    /\ readme_exists = FALSE
    /\ manifest_data = [absent |-> TRUE]
    /\ made = 0
    /\ invoice_list = <<>>
    /\ load_out = "none"

NoIndex == [exists |-> FALSE, fields |-> <<>>, docs |-> {}, created_by |-> "none"]

\* the extraction and the reset utility are not in use
PipeIdle ==
    /\ epc = "start"
    /\ pdf_list = <<>>
    /\ pos = 0
    /\ extracted_invoices = <<>>
    /\ in_flight = {}
    /\ submissions = <<>>
    /\ received = {}
    /\ errors = <<>>
    /\ outcomes = <<>>
    /\ extraction_file = <<>>
    /\ steps = <<>>
    /\ index = NoIndex
    /\ uploads = 0
    /\ rpc = "start"
    /\ index_name_set = TRUE
    /\ reset_requests = <<>>
    /\ reset_out = "none"
    /\ response = "<None>"
    /\ recreate = "<None>"
    /\ deleted = "not_tried"
    /\ created = "not_tried"

NoManifest == [absent |-> TRUE]

\* the generator is not in use
GenIdle ==
    /\ folder_exists = FALSE
    /\ folder_files = {}
    /\ manifest_file = NoManifest
    /\ generated = FALSE
    /\ gen_out = "none"

vars == <<vvars, ovars>>

NoReport == [total_records |-> -1]

NothingPrinted == [missing_fields |-> <<>>]

NoExit == -1

\* what a run of the script leaves behind
Outcome ==
    [ended          |-> pc,
     missing_fields |-> missing_fields,
     duplicate_ids  |-> duplicate_ids,
     math_errors    |-> math_errors,
     sequence_gaps  |-> sequence_gaps,
     printed        |-> printed,
     currencies     |-> currencies,
     vendors        |-> vendors,
     report         |-> report,
     exit_code      |-> exit_code]

\* lines 161-172: the script looks for the manifest file; without it the
\* script prints an error and exits with status 1
StartMain ==
    /\ pc = "main"
    /\ IF file_state = "absent"
       THEN /\ exit_code' = 1
            /\ pc' = "exited"
       ELSE /\ pc' = "load"
            /\ UNCHANGED exit_code
    /\ UNCHANGED <<file_state, manifest, run, first, data, i, invoice_ids,
                   missing_fields, math_errors, duplicate_ids, sequence_gaps,
                   printed, currencies, vendors, tallied, report>>
    /\ UNCHANGED ovars

\* lines 35-53: read the file, initialise the tracking variables; json.load
\* raises on a file that is not JSON
LoadManifest ==
    /\ pc = "load"
    /\ IF file_state = "malformed"
       THEN /\ pc' = "load_failed"
            /\ UNCHANGED <<data, i, invoice_ids, missing_fields, math_errors,
                           duplicate_ids, sequence_gaps>>
       ELSE /\ data' = manifest
            /\ i' = 0
            /\ invoice_ids' = InitialIds(invoice_ids)
            /\ missing_fields' = <<>>
            /\ math_errors' = <<>>
            /\ duplicate_ids' = <<>>
            /\ sequence_gaps' = <<>>
            /\ pc' = "records"
    /\ UNCHANGED <<file_state, manifest, run, first, printed, currencies,
                   vendors, tallied, report, exit_code>>
    /\ UNCHANGED ovars

\* lines 56-82: one iteration of "for i, record in enumerate(data)"
CheckRecord ==
    /\ pc = "records"
    /\ i < Len(data)
    /\ LET record == data[i + 1]
           inv_id == Get(record, "invoice_id", "")
       IN  /\ missing_fields' = missing_fields \o MissingOf(i, record)
           /\ duplicate_ids' = Duplicates(duplicate_ids, inv_id, invoice_ids)
           /\ invoice_ids' = Seen(invoice_ids, inv_id)
           /\ math_errors' =
                 IF MathError(record)
                 THEN Append(math_errors,
                             [inv_id     |-> inv_id,
                              calculated |-> CalculatedTotal(record),
                              recorded   |-> RecordedTotal(record),
                              subtotal   |-> Get(record, "subtotal", 0),
                              tax        |-> Get(record, "tax", 0),
                              shipping   |-> Get(record, "shipping", 0)])
                 ELSE math_errors
           /\ data' = [data EXCEPT ![i + 1] = ReadRecord(record)]
    /\ i' = i + 1
    /\ UNCHANGED <<file_state, manifest, run, first, pc, sequence_gaps,
                   printed, currencies, vendors, tallied, report, exit_code>>
    /\ UNCHANGED ovars

\* lines 84-90: the ID sequence check; the subscript record['invoice_id']
\* raises KeyError on a record without the field and the run ends there
CheckSequence ==
    /\ pc = "records"
    /\ i = Len(data)
    /\ IF RaisesKeyError(data)
       THEN /\ pc' = "raised"
            /\ UNCHANGED sequence_gaps
       ELSE /\ sequence_gaps' =
                  SequenceGaps([k \in 1..Len(data) |-> data[k]["invoice_id"]])
            /\ pc' = "results"
    /\ UNCHANGED <<file_state, manifest, run, first, data, i, invoice_ids,
                   missing_fields, math_errors, duplicate_ids, printed,
                   currencies, vendors, tallied, report, exit_code>>
    /\ UNCHANGED ovars

\* lines 92-126: print the four categories, each cut to its first entries
PrintResults ==
    /\ pc = "results"
    /\ printed' =
          [missing_fields |-> PrintedFor(missing_fields),
           duplicate_ids  |-> PrintedFor(duplicate_ids),
           math_errors    |-> PrintedFor(math_errors),
           sequence_gaps  |-> PrintedFor(sequence_gaps)]
    /\ pc' = "statistics"
    /\ UNCHANGED <<file_state, manifest, run, first, data, i, invoice_ids,
                   missing_fields, math_errors, duplicate_ids, sequence_gaps,
                   currencies, vendors, tallied, report, exit_code>>
    /\ UNCHANGED ovars

\* lines 128-129: the statistics start from empty counts
StartStatistics ==
    /\ pc = "statistics"
    /\ currencies' = <<>>
    /\ vendors' = <<>>
    /\ tallied' = 0
    /\ pc' = "tally"
    /\ UNCHANGED <<file_state, manifest, run, first, data, i, invoice_ids,
                   missing_fields, math_errors, duplicate_ids, sequence_gaps,
                   printed, report, exit_code>>
    /\ UNCHANGED ovars

\* lines 130-135: one iteration of "for record in data"
TallyRecord ==
    /\ pc = "tally"
    /\ tallied < Len(data)
    /\ currencies' = Tallied(currencies, data[tallied + 1], "currency")
    /\ vendors' = Tallied(vendors, data[tallied + 1], "vendor")
    /\ tallied' = tallied + 1
    /\ UNCHANGED <<file_state, manifest, run, first, pc, data, i, invoice_ids,
                   missing_fields, math_errors, duplicate_ids, sequence_gaps,
                   printed, report, exit_code>>
    /\ UNCHANGED ovars

\* lines 137-140: the loop is over, the statistics are printed
GatherStatistics ==
    /\ pc = "tally"
    /\ tallied = Len(data)
    /\ pc' = "verdict"
    /\ UNCHANGED <<file_state, manifest, run, first, data, i, invoice_ids,
                   missing_fields, math_errors, duplicate_ids, sequence_gaps,
                   printed, currencies, vendors, tallied, report, exit_code>>
    /\ UNCHANGED ovars

\* lines 142-158
ReturnReport ==
    /\ pc = "verdict"
    /\ report' =
          [total_records  |-> Len(data),
           missing_fields |-> Len(missing_fields),
           duplicate_ids  |-> Len(duplicate_ids),
           math_errors    |-> Len(math_errors),
           sequence_gaps  |-> Len(sequence_gaps),
           currencies     |-> currencies,
           vendors        |-> vendors,
           passed         |-> ~HasErrors(missing_fields, duplicate_ids,
                                         math_errors, sequence_gaps)]
    /\ pc' = "done"
    /\ UNCHANGED <<file_state, manifest, run, first, data, i, invoice_ids,
                   missing_fields, math_errors, duplicate_ids, sequence_gaps,
                   printed, currencies, vendors, tallied, exit_code>>
    /\ UNCHANGED ovars

\* line 175 after a return; an exception of validate_manifest is caught
\* nowhere and ends the script with the interpreter's error status
Exit ==
    /\ pc \in {"done", "raised", "load_failed"}
    /\ exit_code' = IF pc = "done" THEN ExitStatus(report.passed)
                    ELSE UncaughtStatus
    /\ pc' = "exited"
    /\ UNCHANGED <<file_state, manifest, run, first, data, i, invoice_ids,
                   missing_fields, math_errors, duplicate_ids, sequence_gaps,
                   printed, currencies, vendors, tallied, report>>
    /\ UNCHANGED ovars

\* the script is started a second time on the unchanged file: a new process
\* has no output, result or exit status yet
Rerun ==
    /\ pc = "exited"
    /\ run = 1
    /\ first' = Outcome
    /\ run' = 2
    /\ printed' = NothingPrinted
    /\ report' = NoReport
    /\ exit_code' = NoExit
    /\ pc' = "main"
    /\ UNCHANGED <<file_state, manifest, data, i, invoice_ids,
                   missing_fields, math_errors, duplicate_ids, sequence_gaps,
                   currencies, vendors, tallied>>
    /\ UNCHANGED ovars

VInit ==
    /\ \/ file_state = "ok" /\ manifest \in Manifests
       \/ file_state \in {"absent", "malformed"} /\ manifest = <<>>
    /\ run = 1
    /\ first = [ended |-> "never"]
    /\ pc = "main"
    /\ data = <<>>
    /\ i = 0
    /\ invoice_ids = {}
    /\ missing_fields = <<>>
    /\ math_errors = <<>>
    /\ duplicate_ids = <<>>
    /\ sequence_gaps = <<>>
    /\ printed = NothingPrinted
    /\ currencies = <<>>
    /\ vendors = <<>>
    /\ tallied = 0
    /\ report = NoReport
    /\ exit_code = NoExit

\* the validator is not in use
VIdle ==
    /\ file_state = "absent"
    /\ manifest = <<>>
    /\ run = 1
    /\ first = [ended |-> "never"]
    /\ pc = "main"
    /\ data = <<>>
    /\ i = 0
    /\ invoice_ids = {}
    /\ missing_fields = <<>>
    /\ math_errors = <<>>
    /\ duplicate_ids = <<>>
    /\ sequence_gaps = <<>>
    /\ printed = NothingPrinted
    /\ currencies = <<>>
    /\ vendors = <<>>
    /\ tallied = 0
    /\ report = NoReport
    /\ exit_code = NoExit

Init == VInit /\ GenIdle /\ PipeIdle /\ ChatIdle /\ LoadIdle

Next ==
    \/ StartMain
    \/ LoadManifest
    \/ CheckRecord
    \/ CheckSequence
    \/ PrintResults
    \/ StartStatistics
    \/ TallyRecord
    \/ GatherStatistics
    \/ ReturnReport
    \/ Exit
    \/ Rerun

Spec == Init /\ [][Next]_vars

(***************************************************************************)
(* generate_manifest.py                                                    *)
(***************************************************************************)

\* the file names a folder may hold, in the order Python compares strings
NameOrder ==
    <<"INV-2025-0001.pdf", "INV-2025-0002.pdf", "README.txt",
      "invoice-extra.pdf">>

FileNames == {NameOrder[k] : k \in 1..Len(NameOrder)}

\* a < b for two file names
NameLess(a, b) ==
    \E j, k \in 1..Len(NameOrder) :
        NameOrder[j] = a /\ NameOrder[k] = b /\ j < k

\* line 47: the pattern "*.pdf"
MatchesPdf(name) ==
    Len(name) >= 4 /\ SubSeq(name, Len(name) - 3, Len(name)) = ".pdf"

\* line 47: folder_path.glob("*.pdf") yields the matching names in the order
\* the file system lists them, which is any order
Glob(files) ==
    LET match == {f \in files : MatchesPdf(f)}
        n     == Cardinality(match)
    IN  {s \in [1..n -> match] : \A j, k \in 1..n : s[j] = s[k] => j = k}

\* s with name put at its place, s being sorted
RECURSIVE Inserted(_, _)
Inserted(s, name) ==
    IF s = <<>> THEN <<name>>
    ELSE IF NameLess(name, Head(s)) THEN <<name>> \o s
    ELSE <<Head(s)>> \o Inserted(Tail(s), name)

\* variant: the names are left in the order listed
ListSorted_AsListed(s) == s

\* line 50: pdf_files.sort()
RECURSIVE ListSorted(_)
ListSorted(s) ==
    IF s = <<>> THEN <<>> ELSE Inserted(ListSorted(Tail(s)), Head(s))

\* lines 32-52, listing being what glob yields
scan_invoice_folder(exists, listing) ==
    IF ~exists THEN <<>> ELSE ListSorted(listing)

\* lines 55-79
generate_manifest(pdf_files, output_dir, manifest_filename) ==
    [output_dir   |-> output_dir,
     num_expected |-> Len(pdf_files),
     num_created  |-> Len(pdf_files),
     pdf_files    |-> pdf_files,
     manifest     |-> manifest_filename]

\* lines 100-157: main scans the folder; without a PDF it prints an error and
\* returns, otherwise it builds the manifest and writes the manifest file
GenerateMain ==
    /\ \E listing \in (IF folder_exists THEN Glob(folder_files) ELSE {<<>>}) :
          LET pdf_files == scan_invoice_folder(folder_exists, listing)
          IN  IF pdf_files = <<>>
              THEN /\ gen_out' = "error"
                   /\ UNCHANGED manifest_file
              ELSE /\ manifest_file' =
                         generate_manifest(pdf_files, "invoices",
                                           "manifest_invoices.json")
                   /\ gen_out' = "complete"
    /\ generated' = TRUE
    /\ UNCHANGED <<folder_exists, folder_files>>
    /\ UNCHANGED <<vvars, pvars, cvars, lvars>>

\* between runs, a file is put into the folder
AddFile ==
    /\ folder_exists
    /\ \E f \in FileNames \ folder_files : folder_files' = folder_files \cup {f}
    /\ generated' = FALSE
    /\ gen_out' = "none"
    /\ UNCHANGED <<folder_exists, manifest_file>>
    /\ UNCHANGED <<vvars, pvars, cvars, lvars>>

\* between runs, a file is removed from the folder
RemoveFile ==
    /\ \E f \in folder_files : folder_files' = folder_files \ {f}
    /\ generated' = FALSE
    /\ gen_out' = "none"
    /\ UNCHANGED <<folder_exists, manifest_file>>
    /\ UNCHANGED <<vvars, pvars, cvars, lvars>>

\* between runs, the folder is removed with everything in it
RemoveFolder ==
    /\ folder_exists
    /\ folder_exists' = FALSE
    /\ folder_files' = {}
    /\ manifest_file' = NoManifest
    /\ generated' = FALSE
    /\ gen_out' = "none"
    /\ UNCHANGED <<vvars, pvars, cvars, lvars>>

\* between runs, the folder is created, empty
CreateFolder ==
    /\ ~folder_exists
    /\ folder_exists' = TRUE
    /\ generated' = FALSE
    /\ gen_out' = "none"
    /\ UNCHANGED <<folder_files, manifest_file>>
    /\ UNCHANGED <<vvars, pvars, cvars, lvars>>

\* the folder holds files and no manifest has been generated yet
GenInit ==
    /\ VIdle
    /\ folder_exists = TRUE
    /\ folder_files = FileNames
    /\ manifest_file = NoManifest
    /\ generated = FALSE
    /\ gen_out = "none"
    /\ PipeIdle
    /\ ChatIdle
    /\ LoadIdle

GenNext ==
    \/ GenerateMain
    \/ AddFile
    \/ RemoveFile
    \/ RemoveFolder
    \/ CreateFolder

GenSpec == GenInit /\ [][GenNext]_vars

(***************************************************************************)
(* extract_and_index.py and reset_index.py                                 *)
(***************************************************************************)

xvars == <<epc, pdf_list, pos, extracted_invoices, in_flight, submissions,
           received, errors, outcomes, extraction_file, steps>>

svars == <<index, uploads>>

rvars == <<rpc, index_name_set, reset_requests, reset_out, response,
           recreate, deleted, created>>

\* Python's None, and str() of a value that may be None
None == "<None>"

PyStr(v) == IF v = None THEN "None" ELSE v

\* a or b
Or(a, b) == IF a = None \/ a = "" THEN b ELSE a

\* field.get(key)
FieldGet(field, key) == IF key \in DOMAIN field THEN field[key] ELSE None

\* f"{amount:.2f}" for an amount given in cents
TwoDecimals(cents) ==
    Str(cents \div 100) \o "." \o Digit[((cents \div 10) % 10) + 1]
        \o Digit[(cents % 10) + 1]

\* lines 128-142: the text of a field, None when the field is not there
TextOf(fields, name, other) ==
    IF name \in DOMAIN fields
    THEN Or(FieldGet(fields[name], "content"), FieldGet(fields[name], other))
    ELSE None

\* lines 145-164: the valueCurrency of a field, empty when it has none
ValueCurrency(fields, name) ==
    IF name \in DOMAIN fields /\ "valueCurrency" \in DOMAIN fields[name]
    THEN fields[name]["valueCurrency"]
    ELSE <<>>

\* lines 110-171: the record built for one analysed document
InvoiceData(pdf_file, fields) ==
    LET invoice_id   == TextOf(fields, "InvoiceId", "value_string")
        vendor       == TextOf(fields, "VendorName", "value_string")
        invoice_date == TextOf(fields, "InvoiceDate", "value_date")
        due_date     == TextOf(fields, "DueDate", "value_date")
        total_vc     == ValueCurrency(fields, "InvoiceTotal")
        currency     == Get(total_vc, "currencyCode", "USD")
        total        == Get(total_vc, "amount", 0)
    IN  [invoice_id   |-> invoice_id,
         vendor       |-> vendor,
         invoice_date |-> invoice_date,
         due_date     |-> due_date,
         currency     |-> currency,
         subtotal     |-> Get(ValueCurrency(fields, "SubTotal"), "amount", 0),
         tax          |-> Get(ValueCurrency(fields, "TotalTax"), "amount", 0),
         shipping     |-> 0,
         total        |-> total,
         content      |->
             IF DOMAIN fields = {} THEN ""
             ELSE "Invoice " \o PyStr(invoice_id) \o " from " \o PyStr(vendor)
                      \o " dated " \o PyStr(invoice_date) \o ". Total: "
                      \o currency \o " " \o TwoDecimals(total),
         source_file  |-> pdf_file]

\* lines 109-173: the records appended for the documents of one result
RECURSIVE Extracted(_, _)
Extracted(pdf_file, documents) ==
    IF documents = <<>> THEN <<>>
    ELSE <<InvoiceData(pdf_file, Head(documents))>>
             \o Extracted(pdf_file, Tail(documents))

\* variant: the loop does not wait for the answer before going on
Awaiting_NotAwaited(p) == [pc |-> "loop", pos |-> p + 1]

\* lines 102-106: "await" suspends the coroutine, the loop stays where it is
\* until the answer has come
Awaiting(p) == [pc |-> "begun", pos |-> p]

\* variant: the PDF is tried again
ErrorContinuesAt_Retry(p) == p

\* lines 176-177: the handler prints the error and the loop goes on with the
\* next name
ErrorContinuesAt(p) == p + 1

\* SimpleField(name=, type=, key=, filterable=, sortable=)
SimpleField(name, type, key, filterable, sortable) ==
    [name |-> name, type |-> type, key |-> key, searchable |-> FALSE,
     filterable |-> filterable, sortable |-> sortable,
     analyzer_name |-> None]

\* SearchableField(name=, type=, filterable=, analyzer_name=)
SearchableField(name, type, filterable, analyzer_name) ==
    [name |-> name, type |-> "Edm.String", key |-> FALSE, searchable |-> TRUE,
     filterable |-> filterable, sortable |-> FALSE,
     analyzer_name |-> analyzer_name]

\* extract_and_index.py lines 199-217
IndexFields ==
    <<SimpleField("invoice_id", "Edm.String", TRUE, TRUE, TRUE),
      SearchableField("vendor", "Edm.String", TRUE, None),
      SimpleField("invoice_date", "Edm.String", FALSE, TRUE, TRUE),
      SimpleField("due_date", "Edm.String", FALSE, TRUE, TRUE),
      SimpleField("currency", "Edm.String", FALSE, TRUE, FALSE),
      SimpleField("subtotal", "Edm.Double", FALSE, FALSE, FALSE),
      SimpleField("tax", "Edm.Double", FALSE, FALSE, FALSE),
      SimpleField("shipping", "Edm.Double", FALSE, FALSE, FALSE),
      SimpleField("total", "Edm.Double", FALSE, TRUE, TRUE),
      SearchableField("content", "Edm.String", FALSE, "en.microsoft"),
      SimpleField("source_file", "Edm.String", FALSE, FALSE, FALSE)>>

\* variant: total is not sortable in the recreated index
EmptyIndexFields_TotalNotSortable ==
    [IndexFields EXCEPT ![9] = SimpleField("total", "Edm.Double", FALSE, TRUE, FALSE)]

\* reset_index.py lines 90-108
EmptyIndexFields ==
    <<SimpleField("invoice_id", "Edm.String", TRUE, TRUE, TRUE),
      SearchableField("vendor", "Edm.String", TRUE, None),
      SimpleField("invoice_date", "Edm.String", FALSE, TRUE, TRUE),
      SimpleField("due_date", "Edm.String", FALSE, TRUE, TRUE),
      SimpleField("currency", "Edm.String", FALSE, TRUE, FALSE),
      SimpleField("subtotal", "Edm.Double", FALSE, FALSE, FALSE),
      SimpleField("tax", "Edm.Double", FALSE, FALSE, FALSE),
      SimpleField("shipping", "Edm.Double", FALSE, FALSE, FALSE),
      SimpleField("total", "Edm.Double", FALSE, TRUE, TRUE),
      SearchableField("content", "Edm.String", FALSE, "en.microsoft"),
      SimpleField("source_file", "Edm.String", FALSE, FALSE, FALSE)>>

\* the service creates the index, or updates the fields of the one it has
CreateOrUpdateIndex(idx, fields, by) ==
    IF idx.exists THEN [idx EXCEPT !.fields = fields]
    ELSE [exists |-> TRUE, fields |-> fields, docs |-> {}, created_by |-> by]

\* the service stores the documents, a document replacing the stored one
\* with the same key
UploadDocuments(idx, documents) ==
    LET last == {n \in 1..Len(documents) :
                    \A m \in (n + 1)..Len(documents) :
                        documents[m].invoice_id # documents[n].invoice_id}
        new  == {documents[n] : n \in last}
        kept == {d \in idx.docs :
                    \A n \in 1..Len(documents) :
                        documents[n].invoice_id # d.invoice_id}
    IN  [idx EXCEPT !.docs = kept \cup new]

\* s.strip(), for blanks
RECURSIVE Strip(_)
Strip(s) ==
    IF s = "" THEN s
    ELSE IF SubSeq(s, 1, 1) = " " THEN Strip(SubSeq(s, 2, Len(s)))
    ELSE IF SubSeq(s, Len(s), Len(s)) = " "
         THEN Strip(SubSeq(s, 1, Len(s) - 1))
    ELSE s

UpperCase == "ABCDEFGHIJKLMNOPQRSTUVWXYZ"

LowerCase == "abcdefghijklmnopqrstuvwxyz"

\* s.lower()
RECURSIVE Lower(_)
Lower(s) ==
    IF s = "" THEN s
    ELSE LET c == SubSeq(s, 1, 1)
             u == {k \in 1..Len(UpperCase) : SubSeq(UpperCase, k, k) = c}
         IN  (IF u = {} THEN c
              ELSE LET k == CHOOSE j \in u : TRUE
                   IN  SubSeq(LowerCase, k, k))
                 \o Lower(SubSeq(s, 2, Len(s)))

(* what the document analysis service and the user may answer *)

MaxPdfs == 3

PdfName(k) == SeqId(k) \o ".pdf"

FullFields(k) ==
    [InvoiceId    |-> [content |-> SeqId(k)],
     VendorName   |-> [content |-> "Contoso"],
     InvoiceDate  |-> [content |-> "2025-01-15"],
     DueDate      |-> [value_date |-> "2025-02-14"],
     InvoiceTotal |-> [valueCurrency |-> [currencyCode |-> "EUR", amount |-> 120000]],
     SubTotal     |-> [valueCurrency |-> [amount |-> 100000]],
     TotalTax     |-> [valueCurrency |-> [amount |-> 20000]]]

SparseFields ==
    [VendorName   |-> [content |-> "", value_string |-> "Fabrikam"],
     InvoiceTotal |-> [content |-> "12.00"]]

\* the documents of a result: none, one, or two of which one has no fields
AnalysisResults(k) ==
    {<<>>, <<FullFields(k)>>, <<SparseFields, <<>>>>}

Responses == {"DELETE", "  DELETE ", "delete", ""}

RecreateAnswers == {"y", "YES", "n", "yes please"}

(* extract_and_index.py *)

\* lines 70-79: the manifest is read; open raises when the file is not there
ExtractStart ==
    /\ epc = "start"
    /\ IF manifest_file = NoManifest
       THEN /\ epc' = "raised"
            /\ UNCHANGED <<pdf_list, extracted_invoices>>
       ELSE /\ pdf_list' = Get(manifest_file, "pdf_files", <<>>)
            /\ extracted_invoices' = <<>>
            /\ epc' = "loop"
    /\ UNCHANGED <<pos, in_flight, submissions, received, errors, outcomes,
                   extraction_file>>
    /\ UNCHANGED <<steps, vvars, gvars, cvars, lvars, svars, rvars>>

\* lines 87-92: a listed file that is not in the folder is skipped
SkipPdf ==
    /\ epc = "loop"
    /\ pos < Len(pdf_list)
    /\ pdf_list[pos + 1] \notin folder_files
    /\ outcomes' = Append(outcomes, [kind |-> "skipped", records |-> <<>>])
    /\ pos' = pos + 1
    /\ UNCHANGED <<epc, pdf_list, extracted_invoices, in_flight, submissions,
                   received, errors, extraction_file>>
    /\ UNCHANGED <<steps, vvars, gvars, cvars, lvars, svars, rvars>>

\* lines 96-99, 176-177: reading the file raises, the error is printed
ReadFailed ==
    /\ epc = "loop"
    /\ pos < Len(pdf_list)
    /\ pdf_list[pos + 1] \in folder_files
    /\ errors' = Append(errors, pos + 1)
    /\ outcomes' = Append(outcomes, [kind |-> "unread", records |-> <<>>])
    /\ pos' = ErrorContinuesAt(pos)
    /\ UNCHANGED <<epc, pdf_list, extracted_invoices, in_flight, submissions,
                   received, extraction_file>>
    /\ UNCHANGED <<steps, vvars, gvars, cvars, lvars, svars, rvars>>

\* lines 96-105: the file is read and submitted for analysis
SubmitPdf ==
    /\ epc = "loop"
    /\ pos < Len(pdf_list)
    /\ pdf_list[pos + 1] \in folder_files
    /\ in_flight' = in_flight \cup {pos + 1}
    /\ submissions' = Append(submissions, pos + 1)
    /\ epc' = Awaiting(pos).pc
    /\ pos' = Awaiting(pos).pos
    /\ UNCHANGED <<pdf_list, extracted_invoices, received, errors, outcomes,
                   extraction_file>>
    /\ UNCHANGED <<steps, vvars, gvars, cvars, lvars, svars, rvars>>

\* line 102 returns the poller: the service has accepted the request
BeginAccepted ==
    /\ epc = "begun"
    /\ epc' = "polling"
    /\ UNCHANGED <<pdf_list, pos, extracted_invoices, in_flight, submissions,
                   received, errors, outcomes, extraction_file>>
    /\ UNCHANGED <<steps, vvars, gvars, cvars, lvars, svars, rvars>>

\* lines 102-106 raise, 176-177: the analysis call fails, the error is
\* printed
AnalysisFailed ==
    /\ epc \in {"begun", "polling"}
    /\ in_flight' = in_flight \ {pos + 1}
    /\ received' = received \cup {pos + 1}
    /\ errors' = Append(errors, pos + 1)
    /\ outcomes' = Append(outcomes, [kind |-> "error", records |-> <<>>])
    /\ pos' = ErrorContinuesAt(pos)
    /\ epc' = "loop"
    /\ UNCHANGED <<pdf_list, extracted_invoices, submissions, extraction_file>>
    /\ UNCHANGED <<steps, vvars, gvars, cvars, lvars, svars, rvars>>

\* lines 106-174: the result has come, a record is appended per document
ResultReceived ==
    /\ epc = "polling"
    /\ \E documents \in AnalysisResults(pos + 1) :
          LET records == Extracted(pdf_list[pos + 1], documents)
          IN  /\ extracted_invoices' = extracted_invoices \o records
              /\ outcomes' =
                    Append(outcomes, [kind |-> "ok", records |-> records])
    /\ in_flight' = in_flight \ {pos + 1}
    /\ received' = received \cup {pos + 1}
    /\ pos' = pos + 1
    /\ epc' = "loop"
    /\ UNCHANGED <<pdf_list, submissions, errors, extraction_file>>
    /\ UNCHANGED <<steps, vvars, gvars, cvars, lvars, svars, rvars>>

\* variant: main goes on to the index without looking at the records
AfterExtraction_Always(invoices) == "create_index"

\* lines 265-269: main ends when extraction returned no record
AfterExtraction(invoices) ==
    IF invoices = <<>> THEN "no_invoices" ELSE "create_index"

\* lines 179-190, 265-269: the loop is over, the records are written to
\* extraction_invoices.jsonl and returned; main ends when there is none
FinishExtraction ==
    /\ epc = "loop"
    /\ pos >= Len(pdf_list)
    /\ extraction_file' = extracted_invoices
    /\ steps' = Append(steps, [step |-> "extracted",
                               records |-> Len(extracted_invoices)])
    /\ epc' = AfterExtraction(extracted_invoices)
    /\ UNCHANGED <<pdf_list, pos, extracted_invoices, in_flight, submissions,
                   received, errors, outcomes>>
    /\ UNCHANGED <<vvars, gvars, cvars, lvars, svars, rvars>>

\* lines 193-233, 272: the index is created or updated; a failure is printed
\* and raised again, which ends main
CreateSearchIndex ==
    /\ epc = "create_index"
    /\ \/ /\ index_name_set
          /\ index' = CreateOrUpdateIndex(index, IndexFields,
                                          "extract_and_index")
          /\ steps' = Append(steps, [step |-> "index_created",
                                     records |-> 0])
          /\ epc' = "upload"
       \/ /\ steps' = Append(steps, [step |-> "index_failed", records |-> 0])
          /\ epc' = "raised"
          /\ UNCHANGED index
    /\ UNCHANGED <<pdf_list, pos, extracted_invoices, in_flight, submissions,
                   received, errors, outcomes, extraction_file, uploads>>
    /\ UNCHANGED <<vvars, gvars, cvars, lvars, rvars>>

\* lines 236-255, 275-279: the records are uploaded; a failure is printed and
\* raised again
IndexInvoices ==
    /\ epc = "upload"
    /\ uploads' = uploads + 1
    /\ \/ /\ index.exists
          /\ index' = UploadDocuments(index, extracted_invoices)
          /\ steps' = Append(steps, [step |-> "uploaded",
                                     records |-> Len(extracted_invoices)])
          /\ epc' = "complete"
       \/ /\ steps' = Append(steps, [step |-> "upload_failed",
                                     records |-> Len(extracted_invoices)])
          /\ epc' = "raised"
          /\ UNCHANGED index
    /\ UNCHANGED <<pdf_list, pos, extracted_invoices, in_flight, submissions,
                   received, errors, outcomes, extraction_file>>
    /\ UNCHANGED <<vvars, gvars, cvars, lvars, rvars>>

(* reset_index.py *)

\* lines 129-137: without SEARCH_INDEX_NAME main prints an error and returns
ResetStart ==
    /\ rpc = "start"
    /\ IF index_name_set
       THEN /\ rpc' = "confirm"
            /\ UNCHANGED reset_out
       ELSE /\ rpc' = "ended"
            /\ reset_out' = "no_index_name"
    /\ UNCHANGED <<index_name_set, reset_requests, response, recreate,
                   deleted, created>>
    /\ UNCHANGED <<vvars, gvars, cvars, lvars, xvars, svars>>

\* variant: the answer is compared without regard to case
Confirmed_AnyCase(typed) == Lower(Strip(typed)) = "delete"

\* line 150: the answer confirms the deletion
Confirmed(typed) == Strip(typed) = "DELETE"

\* lines 148-152: the user is asked to type DELETE
ConfirmDeletion ==
    /\ rpc = "confirm"
    /\ \E typed \in Responses :
          /\ response' = typed
          /\ IF ~Confirmed(typed)
             THEN /\ rpc' = "ended"
                  /\ reset_out' = "cancelled"
             ELSE /\ rpc' = "delete"
                  /\ UNCHANGED reset_out
    /\ UNCHANGED <<index_name_set, reset_requests, recreate, deleted, created>>
    /\ UNCHANGED <<vvars, gvars, cvars, lvars, xvars, svars>>

\* variant: main goes on when delete_index returned False
AfterDelete_Always(how) == "recreate"

\* lines 155-159: main ends as incomplete unless delete_index returned True
AfterDelete(how) == IF how = "yes" THEN "recreate" ELSE "ended"

\* lines 51-80, 155-159: delete_index asks for the index and, when there is
\* one, deletes it; either request may fail.  deleted is "yes" for True;
\* for False it tells whether the index was not found or the deletion failed
DeleteIndex ==
    /\ rpc = "delete"
    /\ \/ /\ reset_requests' = Append(reset_requests, "get_index")
          /\ deleted' = "not_found"
          /\ UNCHANGED index
       \/ /\ index.exists
          /\ reset_requests' =
                reset_requests \o <<"get_index", "delete_index">>
          /\ \/ /\ index' = NoIndex
                /\ deleted' = "yes"
             \/ /\ deleted' = "failed"
                /\ UNCHANGED index
    /\ rpc' = AfterDelete(deleted')
    /\ reset_out' = IF rpc' = "ended" THEN "incomplete" ELSE reset_out
    /\ UNCHANGED <<index_name_set, uploads, response, recreate, created>>
    /\ UNCHANGED <<vvars, gvars, cvars, lvars, xvars>>

\* line 165: the answer asks for the index to be recreated
AsksRecreation(answer) == Lower(answer) \in {"y", "yes"}

\* lines 165-172: "RESET COMPLETE!" is printed whatever create_empty_index
\* returned
FinalMessage(how) == "complete"

\* lines 163-185, 83-126: the user is asked whether to recreate the index;
\* create_empty_index reports a failure by its result, which main does not
\* look at
RecreateIndex ==
    /\ rpc = "recreate"
    /\ \E answer \in RecreateAnswers :
          /\ recreate' = answer
          /\ IF AsksRecreation(answer)
             THEN /\ reset_requests' = Append(reset_requests, "create_index")
                  /\ \/ /\ ~index.exists
                        /\ index' = CreateOrUpdateIndex(index, EmptyIndexFields,
                                                        "reset_index")
                        /\ created' = "yes"
                     \/ /\ created' = "failed"
                        /\ UNCHANGED index
             ELSE UNCHANGED <<index, reset_requests, created>>
    /\ reset_out' = FinalMessage(created')
    /\ rpc' = "ended"
    /\ UNCHANGED <<index_name_set, uploads, response, deleted>>
    /\ UNCHANGED <<vvars, gvars, cvars, lvars, xvars>>

\* the folder holds some of the invoices, the manifest lists the first ones
\* or is not there, and the service has no index
PipeInit ==
    /\ VIdle
    /\ folder_exists = TRUE
    /\ folder_files \in SUBSET {PdfName(k) : k \in 1..MaxPdfs}
    /\ manifest_file \in
          {NoManifest} \cup
              {generate_manifest([k \in 1..n |-> PdfName(k)], "invoices",
                                 "manifest_invoices.json") : n \in 0..MaxPdfs}
    /\ generated = FALSE
    /\ gen_out = "none"
    /\ epc = "start"
    /\ pdf_list = <<>>
    /\ pos = 0
    /\ extracted_invoices = <<>>
    /\ in_flight = {}
    /\ submissions = <<>>
    /\ received = {}
    /\ errors = <<>>
    /\ outcomes = <<>>
    /\ extraction_file = <<>>
    /\ steps = <<>>
    /\ index = NoIndex
    /\ uploads = 0
    /\ rpc = "start"
    /\ index_name_set \in BOOLEAN
    /\ reset_requests = <<>>
    /\ reset_out = "none"
    /\ response = None
    /\ recreate = None
    /\ deleted = "not_tried"
    /\ created = "not_tried"
    /\ ChatIdle
    /\ LoadIdle

PipeNext ==
    \/ ExtractStart
    \/ SkipPdf
    \/ ReadFailed
    \/ SubmitPdf
    \/ BeginAccepted
    \/ AnalysisFailed
    \/ ResultReceived
    \/ FinishExtraction
    \/ CreateSearchIndex
    \/ IndexInvoices
    \/ ResetStart
    \/ ConfirmDeletion
    \/ DeleteIndex
    \/ RecreateIndex

PipeSpec == PipeInit /\ [][PipeNext]_vars

(***************************************************************************)
(* chatbot.py                                                              *)
(***************************************************************************)

Months ==
    <<"january", "february", "march", "april", "may", "june", "july",
      "august", "september", "october", "november", "december">>

\* lines 112-116: month_map
MonthNumber(m) == IF m < 10 THEN "0" \o Str(m) ELSE Str(m)

IsDigits(text) ==
    \A k \in 1..Len(text) :
        \E d \in 1..Len(Digit) : SubSeq(text, k, k) = Digit[d]

\* the first place after position p of the text that holds no blank
RECURSIVE PastBlanks(_, _)
PastBlanks(text, p) ==
    IF p < Len(text) /\ SubSeq(text, p + 1, p + 1) = " "
    THEN PastBlanks(text, p + 1) ELSE p + 1

\* line 105: the places where a month name, blanks and four digits stand in
\* the question, as <<start, month>>; lower is the question in lower case
MonthYearMatches(text, lower) ==
    {t \in (1..Len(text)) \X (1..Len(Months)) :
        LET last  == t[1] + Len(Months[t[2]]) - 1
            digit == PastBlanks(text, last)
        IN  /\ last < Len(text)
            /\ SubSeq(lower, t[1], last) = Months[t[2]]
            /\ digit > last + 1
            /\ digit + 3 <= Len(text)
            /\ IsDigits(SubSeq(text, digit, digit + 3))}

\* lines 101-125: the date filter, None when the question names no month
\* and year; re.search takes the leftmost match
FilterFor(text) ==
    LET found == MonthYearMatches(text, Lower(text))
    IN  IF found = {} THEN None
        ELSE LET t     == CHOOSE u \in found : \A v \in found : u[1] <= v[1]
                 digit == PastBlanks(text, t[1] + Len(Months[t[2]]) - 1)
                 year  == SubSeq(text, digit, digit + 3)
                 month == MonthNumber(t[2])
             IN  "invoice_date ge '" \o year \o "-" \o month
                     \o "-01' and invoice_date le '" \o year \o "-" \o month
                     \o "-31'"

ContextLimit == 20

\* variant: the last results are kept
Limited_Last(results) ==
    IF Len(results) > ContextLimit
    THEN SubSeq(results, Len(results) - ContextLimit + 1, Len(results))
    ELSE results

\* lines 129-136: search_results[:20] when there are more than twenty
Limited(results) ==
    IF Len(results) > ContextLimit THEN SubSeq(results, 1, ContextLimit)
    ELSE results

NoInvoicesText == "No relevant invoices found in the database."

ContentLimit == 300

\* lines 72-81: the text written for the i-th result, field by field
InvoiceInfo(n, result) ==
    [number   |-> n,
     id       |-> Get(result, "invoice_id", "N/A"),
     vendor   |-> Get(result, "vendor", "N/A"),
     date     |-> Get(result, "invoice_date", "N/A"),
     due_date |-> Get(result, "due_date", "N/A"),
     total    |-> Get(result, "currency", "") \o " "
                      \o TwoDecimals(Get(result, "total", 0)),
     content  |-> LET c == Get(result, "content", "")
                  IN  IF Len(c) > ContentLimit THEN SubSeq(c, 1, ContentLimit)
                      ELSE c]

\* lines 65-83: the context, a fixed text without results, else the texts of
\* the results in their order
create_context_from_results(results) ==
    IF results = <<>> THEN <<NoInvoicesText>>
    ELSE [n \in 1..Len(results) |-> InvoiceInfo(n, results[n])]

SystemMessage == [role |-> "system", content |-> <<"You are an invoice assistant.">>]

\* lines 151-156
UserMessage(context, text) ==
    [role |-> "user", content |-> <<context, text>>]

AssistantMessage(text) == [role |-> "assistant", content |-> <<text>>]

\* line 165: messages = conversation_history or []; a list that is not empty
\* is taken as it is, not copied
BoundMessages(history) ==
    IF history # <<>> THEN [list |-> history, shared |-> TRUE]
    ELSE [list |-> <<>>, shared |-> FALSE]

\* variant: the system message is put before every question
WithSystem_Always(list) == Append(list, SystemMessage)

\* lines 166-167
WithSystem(list) == IF list = <<>> THEN Append(list, SystemMessage) ELSE list

Apology == "I apologize, but I couldn't generate a response. Please try rephrasing your question."

\* lines 180-185
AnswerOf(text) == IF text = "" THEN Apology ELSE text

(* what the user, the search service and the model may answer *)

MaxQuestions == 2

Hit(k) ==
    [invoice_id   |-> SeqId(k),
     vendor       |-> IF k % 2 = 0 THEN "Contoso" ELSE "Fabrikam",
     invoice_date |-> "2025-04-15",
     due_date     |-> "2025-05-15",
     total        |-> 120000 + k,
     currency     |-> "EUR",
     content      |-> "Invoice " \o SeqId(k)]

\* a result without the fields the context reads
BareHit == [invoice_id |-> SeqId(99)]

Hits(n) == [k \in 1..n |-> Hit(k)]

Reversed(list) == [k \in 1..Len(list) |-> list[Len(list) + 1 - k]]

SearchResults ==
    {Hits(0), <<Hit(2), BareHit>>, Hits(ContextLimit),
     Reversed(Hits(ContextLimit + 2))}

Inputs ==
    {"", "  ", "Quit", "What is the total of INV-2025-0001?",
     " Show me invoices from april  2025 "}

Completions == {"", "Here is the answer."}

(* interactive_chat and ask_chatbot *)

\* lines 212-221: one turn of the prompt
ReadInput ==
    /\ cpc = "prompt"
    /\ \E typed \in Inputs :
          LET text == Strip(typed)
          IN  IF text = "" THEN UNCHANGED <<cpc, user_input, asked,
                                            history_before, said>>
              ELSE IF Lower(text) \in {"quit", "exit", "bye"}
              THEN /\ cpc' = "ended"
                   /\ said' = "goodbye"
                   /\ UNCHANGED <<user_input, asked, history_before>>
              ELSE /\ asked < MaxQuestions
                   /\ user_input' = text
                   /\ asked' = asked + 1
                   /\ history_before' = conversation_history
                   /\ cpc' = "search"
                   /\ UNCHANGED said
    /\ UNCHANGED <<conversation_history, messages, shared, calls>>
    /\ UNCHANGED <<vvars, gvars, pvars, lvars>>

\* lines 127, 231-233: the search raises; interactive_chat prints the error
\* and asks again
SearchFailed ==
    /\ cpc = "search"
    /\ calls' = Append(calls, [question |-> asked, call |-> "search",
                               ok |-> FALSE,
                               request |-> <<user_input, FilterFor(user_input)>>,
                               results |-> <<>>, messages |-> <<>>])
    /\ said' = "error"
    /\ cpc' = "prompt"
    /\ UNCHANGED <<conversation_history, messages, shared, asked, user_input,
                   history_before>>
    /\ UNCHANGED <<vvars, gvars, pvars, lvars>>

\* lines 127-173: the search returns; the context is built, the messages are
\* taken from the history, the user message is appended and the completion
\* is requested
SearchReturned ==
    /\ cpc = "search"
    /\ \E search_results \in SearchResults :
          LET context == create_context_from_results(Limited(search_results))
              bound   == BoundMessages(conversation_history)
              list    == Append(WithSystem(bound.list),
                                UserMessage(context, user_input))
          IN  /\ messages' = list
              /\ shared' = bound.shared
              /\ conversation_history' =
                    IF bound.shared THEN list ELSE conversation_history
              /\ calls' =
                    calls \o
                    <<[question |-> asked, call |-> "search", ok |-> TRUE,
                       request |-> <<user_input, FilterFor(user_input)>>,
                       results |-> search_results, messages |-> <<>>],
                      [question |-> asked, call |-> "completion", ok |-> TRUE,
                       request |-> <<>>, results |-> <<>>,
                       messages |-> list]>>
    /\ cpc' = "completion"
    /\ UNCHANGED <<asked, user_input, history_before, said>>
    /\ UNCHANGED <<vvars, gvars, pvars, lvars>>

\* lines 187-189, 231-233: the completion raises; ask_chatbot raises it
\* again, interactive_chat prints the error and asks again
CompletionFailed ==
    /\ cpc = "completion"
    /\ calls' = [calls EXCEPT ![Len(calls)].ok = FALSE]
    /\ said' = "error"
    /\ cpc' = "prompt"
    /\ UNCHANGED <<conversation_history, messages, shared, asked, user_input,
                   history_before>>
    /\ UNCHANGED <<vvars, gvars, pvars, lvars>>

\* lines 180-194, 225-229: the answer is appended and the list becomes the
\* session's history
CompletionReturned ==
    /\ cpc = "completion"
    /\ \E text \in Completions :
          LET list == Append(messages, AssistantMessage(AnswerOf(text)))
          IN  /\ messages' = list
              /\ conversation_history' = list
              /\ said' = AnswerOf(text)
    /\ cpc' = "prompt"
    /\ UNCHANGED <<shared, asked, user_input, history_before, calls>>
    /\ UNCHANGED <<vvars, gvars, pvars, lvars>>

ChatInit == VIdle /\ GenIdle /\ PipeIdle /\ ChatIdle /\ LoadIdle

ChatNext ==
    \/ ReadInput
    \/ SearchFailed
    \/ SearchReturned
    \/ CompletionFailed
    \/ CompletionReturned

ChatSpec == ChatInit /\ [][ChatNext]_vars

(***************************************************************************)
(* generate_realistic_invoices.py                                          *)
(*                                                                         *)
(* load_manifest makes one invoice record for each name in the pdf_files   *)
(* of invoices/manifest_invoices.json, its amounts computed from the       *)
(* position i of the name (from 1) in binary64.  A record is kept here     *)
(* with its identifier, vendor, terms and amounts; the customer, currency  *)
(* and dates, which depend on i alone, are left out.                       *)
(***************************************************************************)
MaxInvoices == 120

\* line 158: text.replace(old, ""), every occurrence of old removed
RECURSIVE Removed(_, _)
Removed(text, old) ==
    IF Len(text) < Len(old) THEN text
    ELSE IF SubSeq(text, 1, Len(old)) = old
    THEN Removed(SubSeq(text, Len(old) + 1, Len(text)), old)
    ELSE SubSeq(text, 1, 1) \o Removed(SubSeq(text, 2, Len(text)), old)

\* lines 42-53
VendorNames ==
    <<"Adventure Works", "Alpine Ski House", "Contoso Retail",
      "Fabrikam Services", "Litware Consulting", "Northwind Traders",
      "Proseware Ltd", "Tailspin Toys", "Wide World Importers",
      "Woodgrove Bank">>

\* line 182: 10000.0 + (i * 127.5)
SynthSubtotal(k) ==
    FAdd(FromCents(1000000), FMul(FromInt(k), FromCents(12750)))

\* line 183: (10000.0 + (i * 127.5)) * 0.2
SynthTax(k) == FMul(SynthSubtotal(k), FromCents(20))

\* line 184: 25.0 if i % 3 == 0 else 0.0
SynthShipping(k) == IF k % 3 = 0 THEN FromCents(2500) ELSE FromInt(0)

\* variant: the total leaves the shipping out
SynthTotal_NoShipping(k) == FMul(SynthSubtotal(k), FromCents(120))

\* line 185: (10000.0 + (i * 127.5)) * 1.2 + (25.0 if i % 3 == 0 else 0.0)
SynthTotal(k) ==
    FAdd(FMul(SynthSubtotal(k), FromCents(120)), SynthShipping(k))

\* lines 158-187: the record made for the i-th name (Python indexes the
\* vendors from 0)
SynthInvoice(k, pdf_file) ==
    [invoice_id |-> Removed(Removed(pdf_file, "invoice_"), ".pdf"),
     vendor     |-> VendorNames[(k % Len(VendorNames)) + 1],
     terms      |-> IF k % 2 = 0 THEN "Net 30" ELSE "Net 14",
     subtotal   |-> SynthSubtotal(k),
     tax        |-> SynthTax(k),
     shipping   |-> SynthShipping(k),
     total      |-> SynthTotal(k),
     line_items |-> <<>>]

\* line 38: manifest_data.get('pdf_files', [])
ListedPdfs(loaded) ==
    IF "pdf_files" \in DOMAIN loaded THEN loaded.pdf_files ELSE <<>>

\* lines 439-443 of main
Announced(list) == IF list = <<>> THEN "no_invoices" ELSE "found"

\* the manifest files load_manifest may find: none, one without pdf_files,
\* and those written by generate_manifest.py for the first n invoices
ManifestLengths == {0, 1, 3, MaxInvoices}

ManifestFiles ==
    {NoManifest, [output_dir |-> "invoices"]} \cup
    { generate_manifest([k \in 1..n |-> "invoice_" \o PdfName(k)],
                        "invoices", "manifest_invoices.json") :
        n \in ManifestLengths }

\* lines 28-38 and 189-191: without readme.md load_manifest returns [], and
\* without the manifest file the empty list; else it reads the file
LoadStart ==
    /\ lpc = "start"
    /\ IF readme_exists /\ manifest_data # NoManifest
       THEN /\ lpc' = "loop"
            /\ UNCHANGED load_out
       ELSE /\ lpc' = "returned"
            /\ load_out' = Announced(invoice_list)
    /\ UNCHANGED <<readme_exists, manifest_data, made, invoice_list>>
    /\ UNCHANGED <<vvars, gvars, pvars, cvars>>

\* lines 157-187: one turn of the loop
SynthesizeInvoice ==
    /\ lpc = "loop"
    /\ made < Len(ListedPdfs(manifest_data))
    /\ made' = made + 1
    /\ invoice_list' =
          Append(invoice_list,
                 SynthInvoice(made', ListedPdfs(manifest_data)[made']))
    /\ UNCHANGED <<lpc, readme_exists, manifest_data, load_out>>
    /\ UNCHANGED <<vvars, gvars, pvars, cvars>>

\* line 189 and lines 437-443 of main
ReturnInvoices ==
    /\ lpc = "loop"
    /\ made = Len(ListedPdfs(manifest_data))
    /\ lpc' = "returned"
    /\ load_out' = Announced(invoice_list)
    /\ UNCHANGED <<readme_exists, manifest_data, made, invoice_list>>
    /\ UNCHANGED <<vvars, gvars, pvars, cvars>>

LoadInit ==
    /\ VIdle
    /\ GenIdle
    /\ PipeIdle
    /\ ChatIdle
    /\ lpc = "start"
    /\ readme_exists \in BOOLEAN
    /\ manifest_data \in ManifestFiles
    /\ made = 0
    /\ invoice_list = <<>>
    /\ load_out = "none"

LoadNext ==
    \/ LoadStart
    \/ SynthesizeInvoice
    \/ ReturnInvoices

LoadSpec == LoadInit /\ [][LoadNext]_vars

(***************************************************************************)
(* Properties of validate_manifest.                                        *)
(***************************************************************************)
ElevenFields ==
    {"invoice_id", "vendor", "currency", "invoice_date", "due_date", "terms",
     "subtotal", "tax", "shipping", "total", "file_path"}

Complete(record) == ElevenFields \subseteq DOMAIN record

HasId(record) == "invoice_id" \in DOMAIN record

\* the run has ended, by returning or by raising
Finished == pc \in {"done", "raised"}

\* an amount of a record in whole cents, 0 when the field is absent
Cents(record, field) == IF field \in DOMAIN record THEN record[field] ELSE 0

\* subtotal + tax + shipping - total, in whole cents
Discrepancy(record) ==
    Cents(record, "subtotal") + Cents(record, "tax")
        + Cents(record, "shipping") - Cents(record, "total")

\* more than 0.01 apart
OffByMoreThanACent(record) == Discrepancy(record) > 1 \/ Discrepancy(record) < -1

\* the expected IDs that are the invoice_id of no record of d, ascending
AbsentIds(d) ==
    LET absent == {n \in 1..120 :
                      \A k \in 1..Len(d) :
                          ~(HasId(d[k]) /\ d[k]["invoice_id"] = SeqId(n))}
        idx    == SelectSeq([n \in 1..120 |-> n], LAMBDA n : n \in absent)
    IN  [n \in 1..Len(idx) |-> SeqId(idx[n])]

\* the IDs of d (the empty string for a record without one) at the positions
\* where the ID has occurred before, in order
RepeatOccurrences(d) ==
    LET id(k) == IF HasId(d[k]) THEN d[k]["invoice_id"] ELSE ""
        idx   == SelectSeq([k \in 1..Len(d) |-> k],
                           LAMBDA k : \E j \in 1..(k - 1) : id(j) = id(k))
    IN  [n \in 1..Len(idx) |-> id(idx[n])]

\* C1: validate_manifest never raises: whatever fields the records lack, the
\* run ends by returning a report.
C1_NeverRaises == pc # "raised"

\* C2: in a returned report, passed is true exactly when the four diagnostic
\* counts are all 0.
C2_PassedIffNoDiagnostics ==
    pc = "done" =>
        (report.passed <=>
            /\ report.missing_fields = 0
            /\ report.duplicate_ids = 0
            /\ report.math_errors = 0
            /\ report.sequence_gaps = 0)

\* a report whose only diagnostic is one math error, and which did not pass
C2_Witness ==
    /\ pc = "done"
    /\ ~report.passed
    /\ report.missing_fields = 0
    /\ report.duplicate_ids = 0
    /\ report.math_errors = 1
    /\ report.sequence_gaps = 0

\* C3: for every manifest, when the run ends the sequence-gap diagnostics are
\* exactly the expected IDs that no record carries, in ascending order.
C3_GapsAreAbsentIds == Finished => sequence_gaps = AbsentIds(manifest)

\* C4: there is no missing-field diagnostic exactly when every record has all
\* eleven required fields.
C4_NoMissingIffComplete ==
    LET complete == \A k \in 1..Len(manifest) : Complete(manifest[k])
    IN  /\ Finished => (missing_fields = <<>> <=> complete)
        /\ pc = "done" => (report.missing_fields = 0 <=> complete)

\* a report with one missing-field diagnostic, for a record lacking file_path
C4_Witness ==
    /\ pc = "done"
    /\ report.missing_fields = 1
    /\ DOMAIN manifest[1] = ElevenFields \ {"file_path"}

\* C5: when every record has an invoice_id, the duplicate diagnostics are the
\* IDs at their repeat occurrences, in order, so their number is the number of
\* records minus the number of distinct IDs.
C5_DuplicateCount ==
    (pc = "done" /\ \A k \in 1..Len(manifest) : HasId(manifest[k])) =>
        /\ duplicate_ids = RepeatOccurrences(manifest)
        /\ report.duplicate_ids =
              Len(manifest)
                - Cardinality({manifest[k]["invoice_id"] : k \in 1..Len(manifest)})

\* an ID carried by three records yields two duplicate diagnostics
C5_Witness ==
    /\ pc = "done"
    /\ Len(manifest) = 3
    /\ \A k \in 1..3 : HasId(manifest[k])
                        /\ manifest[k]["invoice_id"] = manifest[1]["invoice_id"]
    /\ report.duplicate_ids = 2

\* C6: every record checked so far has contributed one math-error diagnostic
\* if its subtotal + tax + shipping differs from its total by more than 0.01,
\* and none otherwise.
C6_ToleranceOneCent ==
    Len(math_errors) =
        Cardinality({k \in 1..i : OffByMoreThanACent(data[k])})

\* C7: a manifest with a record that lacks a required field is still taken
\* through every check: the run returns, the record counts in the duplicate
\* check under the empty ID and in the statistics, and a record lacking only
\* total whose other amounts exceed 0.01 has both a missing-field and a
\* math-error diagnostic.
C7_IncompleteRecordNotSkipped ==
    (Finished /\ \E k \in 1..Len(manifest) : ~Complete(manifest[k])) =>
        /\ pc = "done"
        /\ duplicate_ids = RepeatOccurrences(manifest)
        /\ sequence_gaps = AbsentIds(manifest)
        /\ report.total_records = Len(manifest)
        /\ \A k \in 1..Len(manifest) :
              (/\ DOMAIN manifest[k] = ElevenFields \ {"total"}
               /\ Discrepancy(manifest[k]) > 1) =>
                  /\ \E n \in 1..Len(missing_fields) :
                        missing_fields[n] = [record |-> k - 1, field |-> "total"]
                  /\ \E n \in 1..Len(math_errors) :
                        math_errors[n].inv_id = manifest[k]["invoice_id"]

\* C8: for two records that both lack invoice_id (and nothing else), the
\* returned report has two missing-field diagnostics and one duplicate-ID
\* diagnostic.
C8_TwoRecordsWithoutId ==
    (/\ Finished
     /\ Len(manifest) = 2
     /\ \A k \in 1..2 : DOMAIN manifest[k] = ElevenFields \ {"invoice_id"}) =>
        /\ pc = "done"
        /\ report.missing_fields = 2
        /\ report.duplicate_ids = 1

\* Scenario A: exactly three complete records INV-2025-0001..0003 with exact
\* arithmetic
ScenarioA ==
    /\ Len(manifest) = 3
    /\ \A k \in 1..3 :
          /\ Complete(manifest[k])
          /\ manifest[k]["invoice_id"] = SeqId(k)
          /\ Discrepancy(manifest[k]) = 0

ScenarioAGaps == [n \in 1..117 |-> SeqId(n + 3)]

\* C9 as stated: Scenario A passes, with no missing-field, duplicate-ID or
\* math-error diagnostic and the 117 gaps INV-2025-0004..INV-2025-0120.
C9_ScenarioAPasses ==
    (pc = "done" /\ ScenarioA) =>
        /\ report.passed
        /\ report.missing_fields = 0
        /\ report.duplicate_ids = 0
        /\ report.math_errors = 0
        /\ report.sequence_gaps = 117
        /\ sequence_gaps = ScenarioAGaps

\* C9 amended: Scenario A does not pass: no missing-field, duplicate-ID or
\* math-error diagnostic, but the 117 gaps INV-2025-0004..INV-2025-0120 make
\* passed false.
C9_ScenarioAFails ==
    (pc = "done" /\ ScenarioA) =>
        /\ ~report.passed
        /\ report.missing_fields = 0
        /\ report.duplicate_ids = 0
        /\ report.math_errors = 0
        /\ report.sequence_gaps = 117
        /\ sequence_gaps = ScenarioAGaps

C9_Witness == pc = "done" /\ ScenarioA /\ report.total_records = 3

\* C10: the empty manifest returns total_records = 0, no missing-field,
\* duplicate-ID or math-error diagnostic, 120 sequence gaps and passed false.
C10_EmptyManifest ==
    (pc = "done" /\ manifest = <<>>) =>
        /\ report.total_records = 0
        /\ report.missing_fields = 0
        /\ report.duplicate_ids = 0
        /\ report.math_errors = 0
        /\ report.sequence_gaps = 120
        /\ ~report.passed

C10_Witness == pc = "done" /\ manifest = <<>> /\ report.sequence_gaps = 120

\* the value a record is counted under in the statistics of a field
CountedUnder(record, field) ==
    IF field \in DOMAIN record THEN record[field] ELSE "Unknown"

\* the number of records of d counted under v
CountOf(d, field, v) ==
    Cardinality({k \in 1..Len(d) : CountedUnder(d[k], field) = v})

RECURSIVE SumOver(_, _)
SumOver(counts, keys) ==
    IF keys = {} THEN 0
    ELSE LET v == CHOOSE w \in keys : TRUE
         IN  counts[v] + SumOver(counts, keys \ {v})

\* counts is the frequency map of field over d
IsFrequencyMap(counts, d, field) ==
    /\ DOMAIN counts = {CountedUnder(d[k], field) : k \in 1..Len(d)}
    /\ \A v \in DOMAIN counts : counts[v] = CountOf(d, field, v)
    /\ SumOver(counts, DOMAIN counts) = Len(d)

C12_SecondRunIdentical == (pc = "exited" /\ run = 2) => Outcome = first

\* a second run that returned a report with a duplicate ID
C12_Witness ==
    /\ pc = "exited"
    /\ run = 2
    /\ "passed" \in DOMAIN report
    /\ report.total_records = 3
    /\ report.duplicate_ids = 1

\* C13: when validate_manifest returns, the loaded records are exactly the
\* records of the manifest: same fields, same values, same order and count.
C13_DatasetUnchanged == pc = "done" => data = manifest

\* a return for a manifest with a record for which defaults were used
C13_Witness ==
    /\ pc = "done"
    /\ \E k \in 1..Len(manifest) : ~Complete(manifest[k])

\* C14: the script exits with status 0 exactly when a report was returned
\* with passed true; it exits non-zero when a diagnostic exists, and when
\* the file is absent or is not JSON it exits non-zero with no check run.
C14_ExitStatus ==
    pc = "exited" =>
        /\ exit_code = 0 <=> ("passed" \in DOMAIN report /\ report.passed)
        /\ (\/ missing_fields # <<>>
            \/ duplicate_ids # <<>>
            \/ math_errors # <<>>
            \/ sequence_gaps # <<>>) => exit_code > 0
        /\ file_state # "ok" =>
              /\ exit_code > 0
              /\ i = 0
              /\ missing_fields = <<>> /\ duplicate_ids = <<>>
              /\ math_errors = <<>> /\ sequence_gaps = <<>>
              /\ printed = NothingPrinted
              /\ report = NoReport

\* the script has exited with status 0 after a report that passed
C14_Witness ==
    /\ pc = "exited"
    /\ exit_code = 0
    /\ report.total_records = 120

\* the first ten entries of a list, or all of it when it has fewer
FirstTen(list) == [n \in 1..(IF Len(list) > 10 THEN 10 ELSE Len(list)) |-> list[n]]

\* the output for a category shows the first ten entries and, beyond ten,
\* the number of entries not shown
TruncatedDisplay(out, list) ==
    /\ out.count = Len(list)
    /\ out.shown = FirstTen(list)
    /\ out.more = (IF Len(list) > 10 THEN Len(list) - 10 ELSE 0)

\* the number of (record, field) pairs of d with the field absent
AbsentFieldCount(d) ==
    Cardinality({<<k, f>> \in (1..Len(d)) \X ElevenFields : f \notin DOMAIN d[k]})

\* C15: each category is displayed cut to its first ten entries with the
\* remaining count, while the counts in the report and the verdict are those
\* of the complete lists.
C15_TruncationOnlyInDisplay ==
    /\ pc \in {"statistics", "tally", "verdict", "done"} =>
          /\ TruncatedDisplay(printed.missing_fields, missing_fields)
          /\ TruncatedDisplay(printed.duplicate_ids, duplicate_ids)
          /\ TruncatedDisplay(printed.math_errors, math_errors)
          /\ TruncatedDisplay(printed.sequence_gaps, sequence_gaps)
    /\ pc = "done" =>
          /\ report.missing_fields = AbsentFieldCount(manifest)
          /\ report.duplicate_ids = Len(RepeatOccurrences(manifest))
          /\ report.math_errors =
                Cardinality({k \in 1..Len(manifest) : MathError(manifest[k])})
          /\ report.sequence_gaps = Len(AbsentIds(manifest))
          /\ report.passed <=>
                /\ AbsentFieldCount(manifest) = 0
                /\ RepeatOccurrences(manifest) = <<>>
                /\ \A k \in 1..Len(manifest) : ~MathError(manifest[k])
                /\ AbsentIds(manifest) = <<>>

\* a report counting twenty missing fields of which ten were displayed
C15_Witness ==
    /\ pc = "done"
    /\ report.missing_fields = 20
    /\ Len(printed.missing_fields.shown) = 10
    /\ printed.missing_fields.more = 10

FieldOrder ==
    <<"invoice_id", "vendor", "currency", "invoice_date", "due_date", "terms",
      "subtotal", "tax", "shipping", "total", "file_path">>

\* the (record index, field name) pairs of the absent fields of d, by record
\* index and then by field order
MissingPairs(d) ==
    LET width == Len(FieldOrder)
        all   == [n \in 1..(Len(d) * width) |->
                     [record |-> (n - 1) \div width,
                      field  |-> FieldOrder[((n - 1) % width) + 1]]]
    IN  SelectSeq(all, LAMBDA p : p.field \notin DOMAIN d[p.record + 1])

\* C16: the returned report carries, under missing_fields, the ordered list
\* of (record index, field name) pairs of the absent fields.  (The two sides
\* are compared in printed form: a number is never equal to a list.)
C16_ReportCarriesPairs ==
    (pc = "done" /\ MissingPairs(manifest) # <<>>) =>
        ToString(report.missing_fields) = ToString(MissingPairs(manifest))

\* a file name with the extension .pdf
MatchesPdfName(name) ==
    \E stem \in {"INV-2025-0001", "INV-2025-0002", "invoice-extra", "README"} :
        name = stem \o ".pdf"

\* the PDF names now in the folder
PdfNamesNow == {f \in folder_files : MatchesPdfName(f)}

\* the manifest file lists exactly the PDF names now in the folder, in
\* increasing order, and counts them
ManifestReflectsFolder ==
    /\ "pdf_files" \in DOMAIN manifest_file
    /\ LET listed == manifest_file.pdf_files
       IN  /\ {listed[k] : k \in 1..Len(listed)} = PdfNamesNow
           /\ Len(listed) = Cardinality(PdfNamesNow)
           /\ \A j, k \in 1..Len(listed) :
                 j < k => NameLess(listed[j], listed[k])
           /\ manifest_file.num_expected = Cardinality(PdfNamesNow)
           /\ manifest_file.num_created = Cardinality(PdfNamesNow)

\* C17: after main of the manifest generator has run, the manifest file
\* lists exactly the *.pdf names now in the invoices folder, sorted, and
\* num_expected = num_created = their number, whatever the folder holds,
\* an empty or missing folder included.
C17_ManifestReflectsFolder == generated => ManifestReflectsFolder

\* the same for a folder holding at least one PDF
C17_ReflectsNonEmptyFolder ==
    (generated /\ PdfNamesNow # {}) => ManifestReflectsFolder

\* main has run on a folder that lost its PDFs after an earlier run, and the
\* manifest file still lists them
C17_StaleManifest ==
    /\ generated
    /\ gen_out = "error"
    /\ PdfNamesNow = {}
    /\ "pdf_files" \in DOMAIN manifest_file
    /\ manifest_file.num_created = 2

SchemaAttributes ==
    {"name", "type", "key", "searchable", "filterable", "sortable",
     "analyzer_name"}

\* C18: the index recreated by reset_index.py has the schema of the index
\* created by extract_and_index.py: the same eleven field names in the same
\* order, each with the same type and the same key, searchable, filterable,
\* sortable and analyzer attributes.
C18_SameSchema ==
    /\ Len(EmptyIndexFields) = 11
    /\ Len(IndexFields) = 11
    /\ \A n \in 1..11 :
          \A a \in SchemaAttributes :
              EmptyIndexFields[n][a] = IndexFields[n][a]
    /\ (index.exists /\ index.created_by = "reset_index") =>
          /\ Len(index.fields) = Len(IndexFields)
          /\ \A n \in 1..Len(IndexFields) :
                \A a \in SchemaAttributes :
                    index.fields[n][a] = IndexFields[n][a]

\* the reset utility has recreated the index after deleting the one the
\* extraction had filled
C18_Witness ==
    /\ rpc = "ended"
    /\ reset_out = "complete"
    /\ epc = "complete"
    /\ index.exists
    /\ index.created_by = "reset_index"
    /\ index.docs = {}

\* the records of the outcomes, in order
RECURSIVE RecordsOf(_)
RecordsOf(done) ==
    IF done = <<>> THEN <<>>
    ELSE RecordsOf(SubSeq(done, 1, Len(done) - 1)) \o done[Len(done)].records

\* the loop over the listed PDFs has ended
LoopOver == epc \in {"no_invoices", "create_index", "upload", "complete"}

C20_OneAtATime ==
    /\ Cardinality(in_flight) <= 1
    /\ \A j \in 1..Len(submissions) :
          j < Len(submissions) =>
              /\ submissions[j] \in received
              /\ submissions[j] < submissions[j + 1]
    /\ \A p \in in_flight :
          /\ Len(submissions) > 0
          /\ p = submissions[Len(submissions)]
          /\ p \notin received

\* the request for the second PDF is outstanding, the first has been
\* answered
C20_Witness ==
    /\ epc = "polling"
    /\ in_flight = {2}
    /\ received = {1}
    /\ submissions = <<1, 2>>

\* the names of the steps main has taken
StepNames == [n \in 1..Len(steps) |-> steps[n].step]

\* C21: the pipeline goes extract, create index, upload: the index is
\* created only after an extraction that gave at least one record, the
\* upload is requested only after the index creation succeeded, and after an
\* extraction without record or a failed index creation nothing is uploaded.
C21_ExtractCreateUpload ==
    /\ \A n \in 1..Len(steps) :
          /\ steps[n].step = "extracted" => n = 1
          /\ steps[n].step \in {"index_created", "index_failed"} =>
                /\ n = 2
                /\ steps[1].step = "extracted"
                /\ steps[1].records > 0
          /\ steps[n].step \in {"uploaded", "upload_failed"} =>
                /\ n = 3
                /\ steps[2].step = "index_created"
    /\ uploads = Cardinality({n \in 1..Len(steps) :
                                 steps[n].step \in {"uploaded", "upload_failed"}})
    /\ index.docs # {} => (Len(steps) = 3 /\ steps[3].step = "uploaded")
    /\ (Len(steps) >= 1 /\ steps[1].records = 0) =>
          (epc = "no_invoices" /\ Len(steps) = 1 /\ uploads = 0)
    /\ (Len(steps) >= 2 /\ steps[2].step = "index_failed") =>
          (epc = "raised" /\ Len(steps) = 2 /\ uploads = 0)

\* the three steps have been taken and the index holds documents
C21_Witness ==
    /\ epc = "complete"
    /\ StepNames = <<"extracted", "index_created", "uploaded">>
    /\ uploads = 1
    /\ index.docs # {}

Blanks == {"", " ", "  "}

\* the word DELETE between blanks
IsDeleteWord(typed) == \E a, b \in Blanks : typed = a \o "DELETE" \o b

\* C22: the reset utility sends a delete request only after the user has
\* typed exactly DELETE; after any other answer, or without
\* SEARCH_INDEX_NAME, it sends no request to the search service.
C22_OnlyAfterExactDelete ==
    /\ response # "DELETE" => reset_requests = <<>>
    /\ ~index_name_set => reset_requests = <<>>

\* C22, as the code has it: the answer counts without the blanks around it.
C22_OnlyAfterDeleteTyped ==
    /\ ~IsDeleteWord(response) =>
          /\ reset_requests = <<>>
          /\ deleted = "not_tried"
          /\ created = "not_tried"
          /\ rpc \in {"start", "confirm", "ended"}
          /\ rpc = "ended" => reset_out \in {"cancelled", "no_index_name"}
    /\ ~index_name_set => (reset_requests = <<>> /\ response = None)

\* the index has been deleted after an answer of DELETE between blanks
C22_Witness ==
    /\ response = "  DELETE "
    /\ deleted = "yes"
    /\ reset_requests = <<"get_index", "delete_index">>
    /\ ~index.exists

\* an answer of y or yes, in any case of the letters
YesAnswers == {"y", "Y", "yes", "Yes", "YES"}

\* C23: the reset utility creates an index only after a deletion that
\* succeeded in the same run and an answer of y or yes; when the index was
\* not found or the deletion failed, the run ends as incomplete and
\* recreation is neither offered nor attempted.
C23_RecreateOnlyAfterDeletion ==
    /\ (created # "not_tried"
          \/ \E n \in 1..Len(reset_requests) : reset_requests[n] = "create_index")
          =>
          /\ deleted = "yes"
          /\ recreate \in YesAnswers
          /\ reset_requests = <<"get_index", "delete_index", "create_index">>
    /\ recreate # None => deleted = "yes"
    /\ (recreate # None /\ recreate \notin YesAnswers) => created = "not_tried"
    /\ deleted \in {"not_found", "failed"} =>
          /\ rpc = "ended"
          /\ reset_out = "incomplete"
          /\ recreate = None
          /\ created = "not_tried"
          /\ \A n \in 1..Len(reset_requests) :
                reset_requests[n] # "create_index"

\* the index has been recreated after a deletion and an answer of YES
C23_Witness ==
    /\ rpc = "ended"
    /\ deleted = "yes"
    /\ recreate = "YES"
    /\ created = "yes"
    /\ index.exists
    /\ index.created_by = "reset_index"

\* C24: RESET COMPLETE is reported only when the index was deleted and, the
\* user having asked for recreation, the empty index was created.
C24_CompleteMeansDone ==
    reset_out = "complete" =>
        /\ deleted = "yes"
        /\ recreate \in YesAnswers => created = "yes"

\* the session stands at the prompt, no question being answered
AtPrompt == cpc \in {"prompt", "ended"}

\* the calls made for question q
CallsFor(q, kind) ==
    {n \in 1..Len(calls) : calls[n].question = q /\ calls[n].call = kind}

\* question q got its answer
Succeeded(q) == \E n \in CallsFor(q, "completion") : calls[n].ok

\* the text of question q
QuestionText(q) ==
    LET n == CHOOSE m \in CallsFor(q, "search") : TRUE
    IN  calls[n].request[1]

\* C25: in a session started without history, after n questions that all
\* succeeded the history is one system message followed by the n (user,
\* assistant) pairs in the order of the questions.
C25_SystemThenPairs ==
    (AtPrompt /\ asked > 0 /\ \A q \in 1..asked : Succeeded(q)) =>
        /\ Len(conversation_history) = 1 + 2 * asked
        /\ conversation_history[1].role = "system"
        /\ \A q \in 1..asked :
              /\ conversation_history[2 * q].role = "user"
              /\ conversation_history[2 * q].content[2] = QuestionText(q)
              /\ conversation_history[2 * q + 1].role = "assistant"
        /\ Len(conversation_history) =
              Len(history_before) + (IF asked = 1 THEN 3 ELSE 2)
        /\ \A k \in 1..Len(history_before) :
              conversation_history[k] = history_before[k]

\* two questions have been answered
C25_Witness ==
    /\ cpc = "prompt"
    /\ asked = 2
    /\ Succeeded(1)
    /\ Succeeded(2)
    /\ Len(conversation_history) = 5
    /\ conversation_history[4].content[2] # conversation_history[2].content[2]

\* a system message followed by complete (user, assistant) pairs
SystemAndPairs(history) ==
    /\ Len(history) % 2 = 1
    /\ history[1].role = "system"
    /\ \A k \in 2..Len(history) :
          history[k].role = (IF k % 2 = 0 THEN "user" ELSE "assistant")

\* C26: a question whose search or completion call fails leaves the history
\* as it was before the question, so at every prompt the history is absent
\* or a system message followed by complete (user, assistant) pairs.
C26_FailureLeavesHistory ==
    AtPrompt =>
        /\ (asked > 0 /\ ~Succeeded(asked)) =>
              conversation_history = history_before
        /\ conversation_history = <<>> \/ SystemAndPairs(conversation_history)

\* the context passed by the completion call calls[n]
ContextOf(n) ==
    LET passed == calls[n].messages
    IN  passed[Len(passed)].content[1]

\* C27: the context of every completion call is made of the first 20
\* results of the search of its question, in the order returned, or is the
\* fixed text when there is none; each question has exactly one search, and
\* at most one completion call, which comes after it.
C27_ContextFromFirstTwenty ==
    /\ \A n \in 1..Len(calls) :
          calls[n].call = "completion" =>
              /\ n > 1
              /\ calls[n - 1].call = "search"
              /\ calls[n - 1].question = calls[n].question
              /\ calls[n - 1].ok
              /\ LET found   == calls[n - 1].results
                     context == ContextOf(n)
                     shown   == IF Len(found) > 20 THEN 20 ELSE Len(found)
                 IN  IF found = <<>>
                     THEN context =
                            <<"No relevant invoices found in the database.">>
                     ELSE /\ Len(context) = shown
                          /\ \A k \in 1..shown :
                                /\ context[k].number = k
                                /\ context[k].id = found[k].invoice_id
    /\ \A q \in 1..asked :
          /\ Cardinality(CallsFor(q, "search")) =
                (IF q = asked /\ cpc = "search" THEN 0 ELSE 1)
          /\ Cardinality(CallsFor(q, "completion")) <= 1
          /\ \A n \in CallsFor(q, "completion") :
                \A m \in CallsFor(q, "search") : m < n
    /\ \A n \in 1..Len(calls) : calls[n].question \in 1..asked

\* a completion was requested after a search that returned 22 results
C27_Witness ==
    \E n \in 2..Len(calls) :
        /\ calls[n].call = "completion"
        /\ Len(calls[n - 1].results) = 22
        /\ Len(ContextOf(n)) = 20
        /\ ContextOf(n)[1].id = SeqId(22)
        /\ ContextOf(n)[20].id = SeqId(3)

\* the float x is the exact amount of c whole cents, that is float(c/100)
IsCents(x, c) == x = FromCents(c)

\* C28: every record made by the PDF generator satisfies the validator's
\* arithmetic check: at every position i, subtotal + tax + shipping rounded
\* to cents is the total rounded to cents, the tax is 20% of the subtotal,
\* and the shipping is 25.00 when i is a multiple of 3 and 0 otherwise.
C28_SynthesizedTotalsAgree ==
    \A k \in 1..Len(invoice_list) :
        LET record == invoice_list[k]
            sum    == FAdd(FAdd(record.subtotal, record.tax), record.shipping)
        IN  /\ PyRound2(sum) = PyRound2(record.total)
            /\ NearestCents(sum) = NearestCents(record.total)
            /\ NearestCents(record.subtotal) = 1000000 + 12750 * k
            /\ 5 * NearestCents(record.tax) = NearestCents(record.subtotal)
            /\ IsCents(record.shipping, IF k % 3 = 0 THEN 2500 ELSE 0)
            /\ NearestCents(record.total) =
                  NearestCents(record.subtotal) + NearestCents(record.tax)
                      + NearestCents(record.shipping)

\* the records of a manifest of 120 names have been made, with and without
\* shipping
C28_Witness ==
    /\ lpc \in {"loop", "returned"}
    /\ Len(invoice_list) >= 120
    /\ invoice_list[120].invoice_id = SeqId(120)
    /\ NearestCents(invoice_list[120].shipping) = 2500
    /\ NearestCents(invoice_list[119].shipping) = 0
    /\ NearestCents(invoice_list[120].total) = 3038500
====
